---------------------------- MODULE Spec2Model ----------------------------
(***************************************************************************)
(* mavrosflight logger_interface.h: the CRTP LoggerInterface<Derived> and  *)
(* DefaultLogger, which formats "[mavrosflight][<LEVEL>]: <format>\n" and  *)
(* hands it to fprintf on stdout (debug, info) or stderr (warn, error,     *)
(* fatal).                                                                 *)
(*                                                                         *)
(* Text is a sequence of one-character strings.  A variadic argument is a  *)
(* record [t, i, s]: t = "int" carries the int i, t = "str" carries the    *)
(* C string s.  A throttle period is <<p>>; a call without one has <<>>.   *)
(***************************************************************************)
EXTENDS Integers, Sequences, FiniteSets

VARIABLES
  stream,    \* stream[fs]: the writes the FILE fs has accepted, in order, each
             \* the text of one fprintf; the byte stream is their concatenation
  avail,     \* avail[fs]: whether a write to fs succeeds
  ncalls,    \* log calls the caller has made
  crashed,   \* the process died inside a call (undefined behaviour in fprintf)
  last,      \* the last call made: its inputs and what it did
  dropped,   \* writes a stream has rejected so far
  undefined, \* some call so far had undefined behaviour
  throttled, \* every call so far was a throttled one
  thread,    \* concurrent callers: thread[t] is where thread t is in its call
  bytes,     \* concurrent callers: bytes[fs] is the byte stream of fs, each
             \* byte with the thread whose call wrote it
  sched,     \* the thread that ran last and the switches between threads
             \* inside writes so far
  mutex      \* the holder of the logger's mutex ("free": nobody)

seqvars == <<stream, avail, ncalls, crashed, last, dropped, undefined, throttled>>

concvars == <<thread, bytes, sched, mutex>>

vars == <<seqvars, concvars>>

\* Calls one thread makes in a row.
MaxCalls == 2

\* Times the scheduler takes a thread off the processor inside its write.
MaxSwitches == 1

Threads == {"t1", "t2"}

Streams == {"stdout", "stderr"}

NL == "\n"

---------------------------------------------------------------------------
\* The call surface

\* A surface with two more levels.
SevenLevels == {"debug", "info", "notice", "warn", "error", "critical", "fatal"}

Levels == {"debug", "info", "warn", "error", "fatal"}

Kinds == {"immediate", "throttle"}

Methods == Levels \X Kinds

LevelOf(m) == m[1]

IsThrottle(m) == m[2] = "throttle"

\* float period: negative, zero, very large
PeriodValues == {-1, 0, 1000000}

PeriodsOf(m) == IF IsThrottle(m) THEN {<<p>> : p \in PeriodValues} ELSE {<<>>}

IntArg(n) == [t |-> "int", i |-> n, s |-> <<>>]

StrArg(str) == [t |-> "str", i |-> 0, s |-> str]

---------------------------------------------------------------------------
\* fprintf: the conversions %d, %s and %%; anything else after a '%' is
\* undefined behaviour, as is a missing argument or one of the wrong type.

DigitChar == <<"0", "1", "2", "3", "4", "5", "6", "7", "8", "9">>

RECURSIVE Digits(_)
Digits(n) ==
  IF n < 10 THEN <<DigitChar[n + 1]>>
  ELSE Digits(n \div 10) \o <<DigitChar[(n % 10) + 1]>>

Decimal(n) == IF n < 0 THEN <<"-">> \o Digits(0 - n) ELSE Digits(n)

\* The formatter stopped at an invalid directive with `rest` of the format left.
Undefined(rest) == [text |-> <<>>, ub |-> TRUE, rest |-> rest]

Emit(chars, r) == [r EXCEPT !.text = chars \o @]

\* Where the first '%' of fmt stands (Len(fmt) + 1 if there is none).
FirstPercent(fmt) ==
  LET at == {i \in 1..Len(fmt) : fmt[i] = "%"}
  IN  IF at = {} THEN Len(fmt) + 1 ELSE CHOOSE i \in at : \A j \in at : i <= j

\* Scan fmt left to right: ordinary characters are copied, a '%' starts a
\* directive; k is the next variadic argument.  Surplus arguments are ignored.
RECURSIVE Render(_, _, _)
Render(fmt, k, args) ==
  LET p == FirstPercent(fmt) IN
  IF p > Len(fmt) THEN [text |-> fmt, ub |-> FALSE, rest |-> <<>>]
  ELSE IF p > 1
    THEN Emit(SubSeq(fmt, 1, p - 1), Render(SubSeq(fmt, p, Len(fmt)), k, args))
  ELSE IF Len(fmt) = 1 THEN Undefined(fmt)
  ELSE LET c    == fmt[2]
           rest == SubSeq(fmt, 3, Len(fmt))
       IN  CASE c = "%" -> Emit(<<"%">>, Render(rest, k, args))
             [] c = "d" ->
                  IF k <= Len(args) /\ args[k].t = "int"
                  THEN Emit(Decimal(args[k].i), Render(rest, k + 1, args))
                  ELSE Undefined(fmt)
             [] c = "s" ->
                  IF k <= Len(args) /\ args[k].t = "str"
                  THEN Emit(args[k].s, Render(rest, k + 1, args))
                  ELSE Undefined(fmt)
             [] OTHER -> Undefined(fmt)

\* What one fprintf(fs, fmt, args...) can do: the bytes fs accepts, the value
\* returned, and whether the process survives.  On an unavailable stream
\* nothing is accepted and a negative value is returned.  Undefined behaviour
\* is a choice: die at the directive, stop there with an error, or print the
\* rest of the format as it stands.
fprintf(ok, fmt, args) ==
  LET r == Render(fmt, 1, args)
      W(text, crash) ==
        [text  |-> IF ok THEN text ELSE <<>>,
         rc    |-> IF ok /\ ~crash THEN Len(text) ELSE -1,
         crash |-> crash]
  IN  IF ~r.ub THEN {W(r.text, FALSE)}
      ELSE {W(r.text, TRUE), W(r.text, FALSE), W(r.text \o r.rest, FALSE)}

---------------------------------------------------------------------------
\* DefaultLogger

TagOpen == <<"[", "m", "a", "v", "r", "o", "s", "f", "l", "i", "g", "h", "t", "]", "[">>

TagClose == <<"]", ":", " ">>

DEBUG == <<"D", "E", "B", "U", "G">>

INFO == <<"I", "N", "F", "O">>

WARN == <<"W", "A", "R", "N">>

ERROR == <<"E", "R", "R", "O", "R">>

FATAL == <<"F", "A", "T", "A", "L">>

\* A function activation: which method ran and with which arguments.
Act(cls, fn, period, format, args) ==
  [cls |-> cls, fn |-> fn, period |-> period, format |-> format, args |-> args]

\* A method's frame: the activations it caused, in call order, and the
\* formatted writes it issued.  `use` says what is done with fprintf's
\* result, `lock` which lock of the logger is held around the write.
Enter(act, frame) == [frame EXCEPT !.trace = <<act>> \o @]

\* _log without the std::endl.
_log_no_endl(fs, name, format, args) ==
  [trace  |-> <<Act("DefaultLogger", <<"_log", "immediate">>, <<>>, format, args)>>,
   writes |-> <<[fs   |-> fs,
                 fmt  |-> TagOpen \o name \o TagClose \o format,
                 args |-> args,
                 use  |-> "discarded",
                 lock |-> "none"]>>]

\* _log that holds a mutex of the logger around fprintf.
_log_locked(fs, name, format, args) ==
  [trace  |-> <<Act("DefaultLogger", <<"_log", "immediate">>, <<>>, format, args)>>,
   writes |-> <<[fs   |-> fs,
                 fmt  |-> TagOpen \o name \o TagClose \o format \o <<NL>>,
                 args |-> args,
                 use  |-> "discarded",
                 lock |-> "mutex"]>>]

\* _log that throws when fprintf reports a failed write.
_log_checked(fs, name, format, args) ==
  [trace  |-> <<Act("DefaultLogger", <<"_log", "immediate">>, <<>>, format, args)>>,
   writes |-> <<[fs   |-> fs,
                 fmt  |-> TagOpen \o name \o TagClose \o format \o <<NL>>,
                 args |-> args,
                 use  |-> "checked",
                 lock |-> "none"]>>]

\* _log that writes the tag and the message with two fprintf calls.
_log_two_writes(fs, name, format, args) ==
  [trace  |-> <<Act("DefaultLogger", <<"_log", "immediate">>, <<>>, format, args)>>,
   writes |-> <<[fs   |-> fs,
                 fmt  |-> TagOpen \o name \o TagClose,
                 args |-> <<>>,
                 use  |-> "discarded",
                 lock |-> "none"],
                [fs   |-> fs,
                 fmt  |-> format \o <<NL>>,
                 args |-> args,
                 use  |-> "discarded",
                 lock |-> "none"]>>]

RECURSIVE Escape(_)
Escape(format) ==
  IF format = <<>> THEN <<>>
  ELSE (IF Head(format) = "%" THEN <<"%", "%">> ELSE <<Head(format)>>) \o Escape(Tail(format))

\* _log that prints the template as data: fprintf(fs, "...%s\n", format).
_log_verbatim(fs, name, format, args) ==
  [trace  |-> <<Act("DefaultLogger", <<"_log", "immediate">>, <<>>, format, args)>>,
   writes |-> <<[fs   |-> fs,
                 fmt  |-> TagOpen \o name \o TagClose \o Escape(format) \o <<NL>>,
                 args |-> args,
                 use  |-> "discarded",
                 lock |-> "none"]>>]

\* ss << "[mavrosflight][" << name << "]: " << format << std::endl;
\* fprintf(fs, ss.str().c_str(), args...);
_log(fs, name, format, args) ==
  [trace  |-> <<Act("DefaultLogger", <<"_log", "immediate">>, <<>>, format, args)>>,
   writes |-> <<[fs   |-> fs,
                 fmt  |-> TagOpen \o name \o TagClose \o format \o <<NL>>,
                 args |-> args,
                 use  |-> "discarded",
                 lock |-> "none"]>>]

DefaultLogger_debug(format, args) ==
  Enter(Act("DefaultLogger", <<"debug", "immediate">>, <<>>, format, args),
        _log("stdout", DEBUG, format, args))

DefaultLogger_debug_throttle(period, format, args) ==
  Enter(Act("DefaultLogger", <<"debug", "throttle">>, <<period>>, format, args),
        DefaultLogger_debug(format, args))

\* info tagged with the neighbouring method's name.
DefaultLogger_info_as_debug(format, args) ==
  Enter(Act("DefaultLogger", <<"info", "immediate">>, <<>>, format, args),
        _log("stdout", DEBUG, format, args))

DefaultLogger_info(format, args) ==
  Enter(Act("DefaultLogger", <<"info", "immediate">>, <<>>, format, args),
        _log("stdout", INFO, format, args))

DefaultLogger_info_throttle(period, format, args) ==
  Enter(Act("DefaultLogger", <<"info", "throttle">>, <<period>>, format, args),
        DefaultLogger_info(format, args))

\* warn sent to the stream of the lower levels.
DefaultLogger_warn_to_stdout(format, args) ==
  Enter(Act("DefaultLogger", <<"warn", "immediate">>, <<>>, format, args),
        _log("stdout", WARN, format, args))

DefaultLogger_warn(format, args) ==
  Enter(Act("DefaultLogger", <<"warn", "immediate">>, <<>>, format, args),
        _log("stderr", WARN, format, args))

DefaultLogger_warn_throttle(period, format, args) ==
  Enter(Act("DefaultLogger", <<"warn", "throttle">>, <<period>>, format, args),
        DefaultLogger_warn(format, args))

DefaultLogger_error(format, args) ==
  Enter(Act("DefaultLogger", <<"error", "immediate">>, <<>>, format, args),
        _log("stderr", ERROR, format, args))

\* error_throttle that honours a positive period by staying silent.
DefaultLogger_error_throttle_enforced(period, format, args) ==
  IF period > 0
  THEN [trace  |-> <<Act("DefaultLogger", <<"error", "throttle">>, <<period>>, format, args)>>,
        writes |-> <<>>]
  ELSE Enter(Act("DefaultLogger", <<"error", "throttle">>, <<period>>, format, args),
             DefaultLogger_error(format, args))

DefaultLogger_error_throttle(period, format, args) ==
  Enter(Act("DefaultLogger", <<"error", "throttle">>, <<period>>, format, args),
        DefaultLogger_error(format, args))

DefaultLogger_fatal(format, args) ==
  Enter(Act("DefaultLogger", <<"fatal", "immediate">>, <<>>, format, args),
        _log("stderr", FATAL, format, args))

DefaultLogger_fatal_throttle(period, format, args) ==
  Enter(Act("DefaultLogger", <<"fatal", "throttle">>, <<period>>, format, args),
        DefaultLogger_fatal(format, args))

\* A call made on a DefaultLogger value.
DefaultLogger(m, period, format, args) ==
  CASE m = <<"debug", "immediate">> -> DefaultLogger_debug(format, args)
    [] m = <<"debug", "throttle">>  -> DefaultLogger_debug_throttle(period[1], format, args)
    [] m = <<"info", "immediate">>  -> DefaultLogger_info(format, args)
    [] m = <<"info", "throttle">>   -> DefaultLogger_info_throttle(period[1], format, args)
    [] m = <<"warn", "immediate">>  -> DefaultLogger_warn(format, args)
    [] m = <<"warn", "throttle">>   -> DefaultLogger_warn_throttle(period[1], format, args)
    [] m = <<"error", "immediate">> -> DefaultLogger_error(format, args)
    [] m = <<"error", "throttle">>  -> DefaultLogger_error_throttle(period[1], format, args)
    [] m = <<"fatal", "immediate">> -> DefaultLogger_fatal(format, args)
    [] m = <<"fatal", "throttle">>  -> DefaultLogger_fatal_throttle(period[1], format, args)

---------------------------------------------------------------------------
\* LoggerInterface<DefaultLogger>: static_cast<Derived&>(*this).method(...)

LoggerInterface_debug(format, args) ==
  Enter(Act("LoggerInterface", <<"debug", "immediate">>, <<>>, format, args),
        DefaultLogger_debug(format, args))

LoggerInterface_debug_throttle(period, format, args) ==
  Enter(Act("LoggerInterface", <<"debug", "throttle">>, <<period>>, format, args),
        DefaultLogger_debug_throttle(period, format, args))

LoggerInterface_info(format, args) ==
  Enter(Act("LoggerInterface", <<"info", "immediate">>, <<>>, format, args),
        DefaultLogger_info(format, args))

LoggerInterface_info_throttle(period, format, args) ==
  Enter(Act("LoggerInterface", <<"info", "throttle">>, <<period>>, format, args),
        DefaultLogger_info_throttle(period, format, args))

LoggerInterface_warn(format, args) ==
  Enter(Act("LoggerInterface", <<"warn", "immediate">>, <<>>, format, args),
        DefaultLogger_warn(format, args))

LoggerInterface_warn_throttle(period, format, args) ==
  Enter(Act("LoggerInterface", <<"warn", "throttle">>, <<period>>, format, args),
        DefaultLogger_warn_throttle(period, format, args))

LoggerInterface_error(format, args) ==
  Enter(Act("LoggerInterface", <<"error", "immediate">>, <<>>, format, args),
        DefaultLogger_error(format, args))

LoggerInterface_error_throttle(period, format, args) ==
  Enter(Act("LoggerInterface", <<"error", "throttle">>, <<period>>, format, args),
        DefaultLogger_error_throttle(period, format, args))

LoggerInterface_fatal(format, args) ==
  Enter(Act("LoggerInterface", <<"fatal", "immediate">>, <<>>, format, args),
        DefaultLogger_fatal(format, args))

\* fatal_throttle forwarded to the immediate method.
LoggerInterface_fatal_throttle_to_fatal(period, format, args) ==
  Enter(Act("LoggerInterface", <<"fatal", "throttle">>, <<period>>, format, args),
        DefaultLogger_fatal(format, args))

LoggerInterface_fatal_throttle(period, format, args) ==
  Enter(Act("LoggerInterface", <<"fatal", "throttle">>, <<period>>, format, args),
        DefaultLogger_fatal_throttle(period, format, args))

\* A call made through a LoggerInterface<DefaultLogger> reference.
LoggerInterface(m, period, format, args) ==
  CASE m = <<"debug", "immediate">> -> LoggerInterface_debug(format, args)
    [] m = <<"debug", "throttle">>  -> LoggerInterface_debug_throttle(period[1], format, args)
    [] m = <<"info", "immediate">>  -> LoggerInterface_info(format, args)
    [] m = <<"info", "throttle">>   -> LoggerInterface_info_throttle(period[1], format, args)
    [] m = <<"warn", "immediate">>  -> LoggerInterface_warn(format, args)
    [] m = <<"warn", "throttle">>   -> LoggerInterface_warn_throttle(period[1], format, args)
    [] m = <<"error", "immediate">> -> LoggerInterface_error(format, args)
    [] m = <<"error", "throttle">>  -> LoggerInterface_error_throttle(period[1], format, args)
    [] m = <<"fatal", "immediate">> -> LoggerInterface_fatal(format, args)
    [] m = <<"fatal", "throttle">>  -> LoggerInterface_fatal_throttle(period[1], format, args)

---------------------------------------------------------------------------
\* Running a call

\* The writes of a frame, in order, against the streams: every way they can
\* end.  Each accepted write is appended to its stream as one chunk.  A write
\* whose result is "discarded" never raises; the process survives unless
\* fprintf died.
RECURSIVE Run(_, _, _)
Run(writes, st, av) ==
  IF writes = <<>>
  THEN {[stream |-> st, crashed |-> FALSE, raised |-> FALSE,
         issued |-> 0, failed |-> 0, targets |-> {}]}
  ELSE LET w == Head(writes)
           After(o) ==
             LET st2    == IF av[w.fs] THEN [st EXCEPT ![w.fs] = Append(@, o.text)] ELSE st
                 failed == ~o.crash /\ o.rc < 0
                 raise  == failed /\ w.use = "checked"
                 stop   == o.crash \/ raise
             IN  {[r EXCEPT !.crashed = o.crash \/ @,
                            !.raised  = raise \/ @,
                            !.issued  = @ + 1,
                            !.failed  = @ + (IF failed THEN 1 ELSE 0),
                            !.targets = @ \cup {w.fs}]
                  : r \in Run(IF stop THEN <<>> ELSE Tail(writes), st2, av)}
       IN  UNION {After(o) : o \in fprintf(av[w.fs], w.fmt, w.args)}

Vias == {"DefaultLogger", "LoggerInterface"}

Invoke(via, m, period, format, args) ==
  IF via = "LoggerInterface"
  THEN LoggerInterface(m, period, format, args)
  ELSE DefaultLogger(m, period, format, args)

NoCall ==
  [via |-> "none", m |-> <<"none", "none">>, period |-> <<>>, format |-> <<>>,
   args |-> <<>>, trace |-> <<>>, raised |-> FALSE, issued |-> 0, failed |-> 0,
   targets |-> {}, wrote |-> [s \in Streams |-> <<>>],
   before |-> [s \in Streams |-> TRUE]]

\* One log call by the caller, start to return: made on a value of one of
\* the types `vias`, with a template and arguments from `inputs`.
Call(vias, inputs, limit) ==
  /\ ~crashed
  /\ ncalls < limit
  /\ \E via \in vias, m \in Methods, in \in inputs :
       \E period \in PeriodsOf(m) :
         LET frame == Invoke(via, m, period, in.format, in.args) IN
         \E o \in Run(frame.writes, stream, avail) :
           /\ stream' = o.stream
           /\ crashed' = o.crashed
           /\ ncalls' = ncalls + 1
           /\ dropped' = dropped + o.failed
           /\ throttled' = (throttled /\ IsThrottle(m))
           /\ undefined' = (undefined \/ \E k \in 1..Len(frame.writes) :
                               Render(frame.writes[k].fmt, 1, frame.writes[k].args).ub)
           /\ last' = [via |-> via, m |-> m, period |-> period,
                       format |-> in.format, args |-> in.args,
                       trace |-> frame.trace, raised |-> o.raised,
                       issued |-> o.issued, failed |-> o.failed,
                       targets |-> o.targets,
                       wrote |-> [s \in Streams |->
                                    SubSeq(o.stream[s], Len(stream[s]) + 1, Len(o.stream[s]))],
                       before |-> avail]
           /\ UNCHANGED avail
           /\ UNCHANGED concvars

Idle ==
  [pc |-> "idle", m |-> <<"none", "none">>, fs |-> "none", lock |-> "none",
   line |-> <<>>, sent |-> 0]

\* Thread t calls a method of the shared DefaultLogger: the method runs down
\* to _log, which builds the format in its own stringstream and is about to
\* call fprintf.
ThreadCalls(t, methods, inputs) ==
  /\ thread[t].pc = "idle"
  /\ \E m \in methods, in \in inputs :
       \E period \in PeriodsOf(m) :
         LET frame == DefaultLogger(m, period, in.format, in.args)
             w     == frame.writes[1]
         IN  \E o \in fprintf(TRUE, w.fmt, w.args) :
               /\ ~o.crash
               /\ thread' = [thread EXCEPT ![t] =
                               [pc |-> "called", m |-> m, fs |-> w.fs, lock |-> w.lock,
                                line |-> o.text, sent |-> 0]]
  /\ UNCHANGED <<bytes, sched, mutex>>
  /\ UNCHANGED seqvars

InWrite(t) == thread[t].pc = "writing"

\* Thread t must wait for the logger's mutex.
Blocked(t) == thread[t].lock # "none" /\ mutex \notin {"free", t}

\* fprintf of thread t hands the next byte of its line to the stream.  The
\* standard streams are not a data race for concurrent callers, but nothing
\* keeps the characters of two calls apart: another thread may run between
\* any two bytes.
WritesByte(t) ==
  /\ thread[t].pc \in {"called", "writing"}
  /\ ~Blocked(t)
  /\ LET preempts == \E u \in Threads \ {t} : sched.running = u /\ InWrite(u)
         n        == thread[t].sent + 1
         done     == n = Len(thread[t].line)
     IN  /\ preempts => sched.switches < MaxSwitches
         /\ sched' = [running  |-> t,
                      switches |-> sched.switches + (IF preempts THEN 1 ELSE 0)]
         /\ bytes' = [bytes EXCEPT ![thread[t].fs] =
                        Append(@, [c |-> thread[t].line[n], by |-> t])]
         /\ thread' = [thread EXCEPT ![t].sent = n,
                                     ![t].pc = IF done THEN "returned" ELSE "writing"]
         /\ mutex' = IF thread[t].lock = "none" THEN mutex
                     ELSE IF done THEN "free" ELSE t
  /\ UNCHANGED seqvars

\* The host closes or loses a destination stream.
StreamFails ==
  /\ ~crashed
  /\ \E fs \in Streams :
       /\ avail[fs]
       /\ avail' = [avail EXCEPT ![fs] = FALSE]
  /\ UNCHANGED <<stream, ncalls, crashed, last, dropped, undefined, throttled>>
  /\ UNCHANGED concvars

Init ==
  /\ stream = [s \in Streams |-> <<>>]
  /\ avail = [s \in Streams |-> TRUE]
  /\ ncalls = 0
  /\ crashed = FALSE
  /\ last = NoCall
  /\ dropped = 0
  /\ undefined = FALSE
  /\ throttled = TRUE
  /\ thread = [t \in Threads |-> Idle]
  /\ bytes = [s \in Streams |-> <<>>]
  /\ sched = [running |-> "none", switches |-> 0]
  /\ mutex = "free"

\* Inputs
In(format, args) == [format |-> format, args |-> args]

Templates ==
  { <<>>,
    <<"x">>,
    <<"x", "=", "%", "d">>,
    <<"%", "s", "=", "%", "d">>,
    <<"5", "0", "%", "%">>,
    <<"%", "%", "d">>,
    <<"x", NL>>,
    <<NL, "x">>,
    <<"%", "s">>,
    <<"5", "0", "%">> }

ArgLists ==
  { <<>>,
    <<IntArg(5)>>,
    <<IntArg(-12)>>,
    <<StrArg(<<"a", "l", "t">>), IntArg(120)>>,
    <<StrArg(<<"a", NL>>)>> }

FormatInputs == {In(f, a) : f \in Templates, a \in ArgLists}

SeqInputs ==
  { In(<<"x", "=", "%", "d">>, <<IntArg(5)>>),
    In(<<"%", "s">>, <<>>) }

\* A thread making up to MaxCalls calls in a row while streams may fail.
LogCall == Call({"DefaultLogger"}, SeqInputs, MaxCalls)

Next == LogCall \/ StreamFails

Spec == Init /\ [][Next]_vars

\* Two threads, one call each into the same DefaultLogger.
ConcMethods == {<<"info", "immediate">>, <<"warn", "immediate">>, <<"warn", "throttle">>}

ConcInputs == {In(<<"x", "=", "%", "d">>, <<IntArg(5)>>)}

ConcNext ==
  \E t \in Threads : ThreadCalls(t, ConcMethods, ConcInputs) \/ WritesByte(t)

ConcSpec == Init /\ [][ConcNext]_vars

\* One call on fresh streams, over every template and argument list.
FormatCall == Call(Vias, FormatInputs, 1)

FormatSpec == Init /\ [][FormatCall]_vars

---------------------------------------------------------------------------
\* Properties

LevelName ==
  [debug |-> <<"d", "e", "b", "u", "g">>,
   info  |-> <<"i", "n", "f", "o">>,
   warn  |-> <<"w", "a", "r", "n">>,
   error |-> <<"e", "r", "r", "o", "r">>,
   fatal |-> <<"f", "a", "t", "a", "l">>]

LowerCase == <<"a", "b", "d", "e", "f", "g", "i", "l", "n", "o", "r", "t", "u", "w">>

UpperCase == <<"A", "B", "D", "E", "F", "G", "I", "L", "N", "O", "R", "T", "U", "W">>

ToUpper(chars) ==
  [k \in 1..Len(chars) |->
     IF \E j \in 1..Len(LowerCase) : LowerCase[j] = chars[k]
     THEN UpperCase[CHOOSE j \in 1..Len(LowerCase) : LowerCase[j] = chars[k]]
     ELSE chars[k]]

\* "[mavrosflight][<LEVEL>]: "
Tag(level) == TagOpen \o ToUpper(LevelName[level]) \o TagClose

StreamFor(level) == IF level \in {"debug", "info"} THEN "stdout" ELSE "stderr"

OtherStream(fs) == IF fs = "stdout" THEN "stderr" ELSE "stdout"

\* The template is well formed and matched by the arguments.
Defined(format, args) == ~Render(format, 1, args).ub

\* The template formatted against the arguments.
Message(format, args) == Render(format, 1, args).text

Line(level, format, args) == Tag(level) \o Message(format, args) \o <<NL>>

CountNL(text) == Cardinality({k \in 1..Len(text) : text[k] = NL})

EndsWithNL(text) == text # <<>> /\ text[Len(text)] = NL

RECURSIVE Flatten(_)
Flatten(chunks) == IF chunks = <<>> THEN <<>> ELSE Head(chunks) \o Flatten(Tail(chunks))

Lines(fs) == CountNL(Flatten(stream[fs]))

Made == ncalls > 0

LastLevel == LevelOf(last.m)

Target == StreamFor(LastLevel)

LastDefined == Defined(last.format, last.args)

\* The text the last call put on its level's stream (empty if none).
LastText == Flatten(last.wrote[Target])

\* C1: the destination stream is decided by the level alone: a debug or
\* info call (throttled or not) calls fprintf on stdout only and leaves
\* stderr as it was, a warn, error or fatal call calls fprintf on stderr only
\* and leaves stdout as it was; an available stream receives the write.
C1_StreamByLevel ==
  Made =>
    /\ last.targets = {Target}
    /\ last.wrote[OtherStream(Target)] = <<>>
    /\ (last.before[Target] => Len(last.wrote[Target]) = 1)

C1_Witness ==
  /\ last.m = <<"warn", "throttle">>
  /\ Len(stream["stderr"]) = 1
  /\ stream["stdout"] = <<>>
  /\ EndsWithNL(LastText)

\* C2: a call of level L with a well-formed template F and arguments A puts
\* exactly "[mavrosflight][" + uppercase(L) + "]: " + F formatted against A
\* + "\n" on the stream of L, and nothing on the other stream.
C2_ExactText ==
  (Made /\ LastDefined) =>
    /\ last.wrote[Target] = <<Line(LastLevel, last.format, last.args)>>
    /\ last.wrote[OtherStream(Target)] = <<>>

C2_Witness ==
  /\ last.m = <<"fatal", "immediate">>
  /\ last.format = <<"%", "s", "=", "%", "d">>
  /\ last.args = <<StrArg(<<"a", "l", "t">>), IntArg(120)>>
  /\ stream["stderr"] =
       << <<"[", "m", "a", "v", "r", "o", "s", "f", "l", "i", "g", "h", "t", "]",
            "[", "F", "A", "T", "A", "L", "]", ":", " ",
            "a", "l", "t", "=", "1", "2", "0", NL>> >>

\* A throttled call, whatever its period, issues one write and does to the
\* streams what the immediate call of its level does with the same template
\* and arguments; an available stream gets one more write, the call's line.
C3_ThrottledStep ==
  (ncalls' = ncalls + 1 /\ IsThrottle(last'.m)) =>
    LET level     == LevelOf(last'.m)
        fs        == StreamFor(level)
        immediate == DefaultLogger(<<level, "immediate">>, <<>>, last'.format, last'.args)
    IN  /\ last'.issued = 1
        /\ \E o \in Run(immediate.writes, stream, avail) :
             o.stream = stream' /\ o.crashed = crashed'
        /\ (avail[fs] => Len(stream'[fs]) = Len(stream[fs]) + 1)
        /\ (avail[fs] /\ Defined(last'.format, last'.args) =>
              stream'[fs][Len(stream'[fs])] = Line(level, last'.format, last'.args))

\* n throttled calls and no other, all well formed and none rejected by its
\* stream: n lines.
C3_NoneSuppressed ==
  (throttled /\ ~undefined /\ dropped = 0) =>
    /\ Len(stream["stdout"]) + Len(stream["stderr"]) = ncalls
    /\ Lines("stdout") + Lines("stderr") = ncalls

\* C3: a throttled call of any period (negative, zero, very large) always
\* emits, and emits exactly what the immediate call of the same level emits
\* with the same template and arguments, on the same stream; after n
\* throttled calls in a row n lines have been emitted, none suppressed.
C3_ThrottleAlwaysEmits == []C3_NoneSuppressed /\ [][C3_ThrottledStep]_vars

\* two throttled calls in a row, the second with a very large period, left
\* the same line twice
C3_Witness ==
  /\ ncalls = 2
  /\ throttled
  /\ last.m = <<"error", "throttle">>
  /\ last.period = <<1000000>>
  /\ Len(stream["stderr"]) = 2
  /\ stream["stderr"][1] = stream["stderr"][2]
  /\ EndsWithNL(stream["stderr"][2])

\* C4 as stated: the output of every call ends with exactly one line break,
\* also when the template itself ends with one, and holds no other line
\* break than the message's own.
C4_EndsWithOneLineBreak ==
  (Made /\ LastDefined) =>
    /\ EndsWithNL(LastText)
    /\ ~EndsWithNL(SubSeq(LastText, 1, Len(LastText) - 1))
    /\ CountNL(LastText) = CountNL(Message(last.format, last.args)) + 1

\* C4: the logger adds exactly one line break, at the very end of the
\* output: the output ends with a line break, holds one more line break than
\* the formatted message, and ends with two line breaks exactly when the
\* formatted message itself ends with one.
C4_OneLineBreakAdded ==
  (Made /\ LastDefined) =>
    /\ EndsWithNL(LastText)
    /\ CountNL(LastText) = CountNL(Message(last.format, last.args)) + 1
    /\ SubSeq(LastText, 1, Len(LastText) - 1) = Tag(LastLevel) \o Message(last.format, last.args)
    /\ (EndsWithNL(SubSeq(LastText, 1, Len(LastText) - 1))
          <=> EndsWithNL(Message(last.format, last.args)))

C4_Witness ==
  /\ Made /\ LastDefined
  /\ last.format = <<"x", NL>>
  /\ SubSeq(LastText, Len(LastText) - 2, Len(LastText)) = <<"x", NL, NL>>

\* C5: a call through LoggerInterface<DefaultLogger> enters the
\* LoggerInterface method, which calls the DefaultLogger method of the same
\* level and kind exactly once with the same period, template and arguments
\* and does nothing else: the activations below it and the effect on the
\* streams are those of the same call made on DefaultLogger.
C5_InterfaceForwards ==
  (Made /\ last.via = "LoggerInterface") =>
    LET direct == DefaultLogger(last.m, last.period, last.format, last.args) IN
    /\ Len(last.trace) >= 2
    /\ last.trace[1] = Act("LoggerInterface", last.m, last.period, last.format, last.args)
    /\ last.trace[2] = Act("DefaultLogger", last.m, last.period, last.format, last.args)
    /\ Cardinality({k \in 1..Len(last.trace) :
                      last.trace[k].cls = "DefaultLogger" /\ last.trace[k].fn = last.m}) = 1
    /\ Tail(last.trace) = direct.trace
    /\ \E o \in Run(direct.writes, [s \in Streams |-> <<>>], last.before) :
         /\ o.stream = stream
         /\ o.crashed = crashed
         /\ o.raised = last.raised

C5_Witness ==
  /\ last.via = "LoggerInterface"
  /\ last.m = <<"fatal", "throttle">>
  /\ last.period = <<-1>>
  /\ Len(last.trace) = 4
  /\ Len(stream["stderr"]) = 1

\* C6 as stated: every call returns normally, whatever its input.
C6_NeverFails == ~crashed /\ ~last.raised

\* C6: no call ever raises an error to its caller; a call whose template is
\* well formed and matched by its arguments returns normally; a write its
\* stream rejects leaves nothing on any stream and is not reported; and
\* every call, also one made after a rejected write, issues its own write.
C6_FailureAbsorbed ==
  Made =>
    /\ ~last.raised
    /\ last.issued = 1
    /\ (LastDefined => ~crashed)
    /\ (~crashed => last.failed = (IF last.before[Target] THEN 0 ELSE 1))
    /\ (last.failed = 1 => \A s \in Streams : last.wrote[s] = <<>>)
    /\ last.failed <= dropped

\* two calls, both on a closed stream: the second was still attempted
C6_Witness ==
  /\ ncalls = 2
  /\ dropped = 2
  /\ last.failed = 1
  /\ last.issued = 1
  /\ ~last.raised
  /\ ~crashed

\* C7 as stated: the capability set has seven severity levels.
C7_SevenLevels == Made => Cardinality({LevelOf(m) : m \in Methods}) = 7

\* C7: the capability set has five severity levels, each with an immediate
\* and a throttled method (ten methods); a call of any of them through the
\* interface reaches DefaultLogger's _log, which issues the write.
C7_FiveLevels ==
  /\ Cardinality(Levels) = 5
  /\ Cardinality(Methods) = 10
  /\ (Made => /\ last.m \in Methods
              /\ last.trace[Len(last.trace)].cls = "DefaultLogger"
              /\ last.trace[Len(last.trace)].fn[1] = "_log"
              /\ last.issued = 1)

C7_Witness ==
  /\ last.via = "LoggerInterface"
  /\ last.m = <<"info", "throttle">>
  /\ last.issued = 1
  /\ Len(stream["stdout"]) = 1

\* A template no directive of which takes an argument: it is well formed
\* for an empty argument list.
NoPlaceholders(format) == Defined(format, <<>>)

RECURSIVE Unescape(_)
Unescape(format) ==
  IF format = <<>> THEN <<>>
  ELSE IF Len(format) >= 2 /\ format[1] = "%" /\ format[2] = "%"
       THEN <<"%">> \o Unescape(SubSeq(format, 3, Len(format)))
       ELSE <<Head(format)>> \o Unescape(Tail(format))

\* C8 as stated: with no arguments and no placeholders the template is
\* emitted verbatim between the tag and the line break.
C8_Verbatim ==
  (Made /\ last.args = <<>> /\ NoPlaceholders(last.format)) =>
    LastText = Tag(LastLevel) \o last.format \o <<NL>>

\* C8: with no arguments and no placeholders the template is emitted between
\* the tag and the line break with every escaped percent sign "%%" turned
\* into one "%", so verbatim exactly when it holds no '%'.
C8_VerbatimButPercent ==
  (Made /\ last.args = <<>> /\ NoPlaceholders(last.format)) =>
    /\ LastText = Tag(LastLevel) \o Unescape(last.format) \o <<NL>>
    /\ (LastText = Tag(LastLevel) \o last.format \o <<NL>>
          <=> \A k \in 1..Len(last.format) : last.format[k] # "%")

C8_Witness ==
  /\ last.args = <<>>
  /\ last.m = <<"debug", "immediate">>
  /\ last.format = <<"5", "0", "%", "%">>
  /\ LastText = Tag("debug") \o <<"5", "0", "%", NL>>

\* Each call issues exactly one write and has it done before it returns: the
\* writes the streams accepted and the writes they rejected number ncalls;
\* with none rejected, n calls have left n lines.  An accepted write of a
\* well formed call is the call's whole line, a function of that call's
\* level, template and arguments only, and it stands last on its stream.
C10_Synchronous ==
  /\ (~crashed => Len(stream["stdout"]) + Len(stream["stderr"]) + dropped = ncalls)
  /\ (~crashed /\ ~undefined /\ dropped = 0 => Lines("stdout") + Lines("stderr") = ncalls)
  /\ (Made /\ LastDefined /\ last.before[Target] =>
        /\ stream[Target] # <<>>
        /\ stream[Target][Len(stream[Target])] = Line(LastLevel, last.format, last.args))

\* What a stream holds stays and keeps its order: a step only appends.
C10_AppendOnly ==
  \A s \in Streams :
    /\ Len(stream[s]) <= Len(stream'[s])
    /\ SubSeq(stream'[s], 1, Len(stream[s])) = stream[s]

\* C10: for any sequence of calls of one thread, of any levels and kinds,
\* each call has handed its complete line to its stream before it returns:
\* after n calls the lines on stdout and stderr together number n, the lines
\* of each stream stand in the order of their calls, and a call's line
\* depends on no earlier call.
C10_InOrder == []C10_Synchronous /\ [][C10_AppendOnly]_vars

\* an error line after a warn line, in the order of the calls
C10_Witness ==
  /\ ncalls = 2
  /\ last.m = <<"error", "throttle">>
  /\ stream["stdout"] = <<>>
  /\ stream["stderr"] = <<Line("warn", <<"x", "=", "%", "d">>, <<IntArg(5)>>),
                          Line("error", <<"x", "=", "%", "d">>, <<IntArg(5)>>)>>

\* The bytes of thread t on stream fs, in order.
RECURSIVE BytesOf(_, _)
BytesOf(t, seq) ==
  IF seq = <<>> THEN <<>>
  ELSE (IF Head(seq).by = t THEN <<Head(seq).c>> ELSE <<>>) \o BytesOf(t, Tail(seq))

\* Two neighbouring bytes of one line come from different calls.
MixedLine(fs) ==
  \E k \in 1..(Len(bytes[fs]) - 1) :
    /\ bytes[fs][k].c # NL
    /\ bytes[fs][k].by # bytes[fs][k + 1].by

=============================================================================
